---- MODULE Spec2Model ----
(***************************************************************************)
(* A model of the flooder (flooder/flooder.c): the connection readiness    *)
(* state machine, the pull-based packet source with its round-robin        *)
(* cursor, and the source -> encoder -> buffer -> transport sink pipeline   *)
(* that invokes it.                                                        *)
(*                                                                         *)
(* flooder.c is modelled from its code.  PacketProtoEncoder,               *)
(* SinglePacketBuffer, ServerConnection and BReactor are used by           *)
(* flooder.c through their interfaces only; their behaviour is modelled    *)
(* from the contracts of the specification (sections 4.3, 4.4, 6).         *)
(***************************************************************************)
EXTENDS Integers, Sequences, FiniteSets

\* ------------------------------------------------------------- bounds

\* Longest TargetList the model draws (MAX_FLOODS, scaled down).
MaxFloods == 4
\* Body length of a payload (SC_MAX_MSGLEN, scaled down).
SC_MAX_MSGLEN == 2
\* How many of the latest productions / emitted frames the history keeps.
HistLen == 6
\* Longest TargetList drawn with identifiers of two non-zero bytes.
MaxWideFloods == 2

\* Peer identifiers (peerid_t is a 16-bit unsigned integer) the TargetList is
\* drawn from; 258 = 0x0102 has two different non-zero bytes.
PeerIds == {3, 7, 9}
WidePeerIds == {7, 258}
\* Peers the server reports in its side channel events.
SidePeers == {3, 258}
\* Identifiers the server may assign to this client in its hello.
MyIds == {1, 2}
\* What a byte of never-written memory may hold.
GarbageBytes == {0, 255}

\* ---------------------------------------------------- wire constants

SCID_OUTMSG == 5
SizeofScHeader == 1
SizeofScClientOutmsg == 2
SC_MAX_ENC == SizeofScHeader + SizeofScClientOutmsg + SC_MAX_MSGLEN

\* -------------------------------------------------------------- state

VARIABLES
    argv,           \* the command line main was given, argv[0] first
    options,        \* [floods, num_floods, ssl]: the parsed command line
    server_ready,   \* whether server is ready
    my_id,          \* my ID, defined only after server_ready
    flood_blocking, \* whether we were asked for a packet and blocked
    flood_next,     \* index of next peer to send packet to
    objs,           \* flood_source, flood_encoder, flood_buffer, server: life cycle
    nss,            \* NSS/NSPR and the client certificate: "off", "up", "down"
    sig_handler,    \* whether signal_handler is installed
    dead,           \* program dead variable
    ss,             \* reactor: [quit, code]
    pc,             \* main: "event_loop", "exited", "aborted"
    exit_code,      \* what main returned
    fault,          \* the ASSERT that failed, "none" otherwise
    pipe,           \* buffer: "none", "job", "waiting", "sending"
    pkt_data,       \* the memory the source is handed (data)
    pkt_len,        \* the integer the source is handed (*data_len)
    in_flight,      \* frames handed to the transport sink, not yet accepted
    call,           \* the latest call of the source: [ret, pre_data, pre_len]
    hist,           \* the latest productions: [cur, peer, seq]
    sink_log,       \* the latest frames the transport sink accepted
    trace,          \* constructions, releases and the reactor's quit, in order
    hello_id,       \* the identifier the ready callback supplied
    last_log        \* the latest BLog line

vars == <<argv, options, server_ready, my_id, flood_blocking, flood_next, objs, nss,
          sig_handler, dead, ss, pc, exit_code, fault, pipe, pkt_data, pkt_len,
          in_flight, call, hist, sink_log, trace, hello_id, last_log>>

\* The command line and flooder.c's own globals.
core == <<argv, options, server_ready, my_id, flood_blocking, flood_next>>
\* The life cycle of the process.
life == <<objs, nss, sig_handler, dead, ss, trace>>
\* The pipeline between the source and the transport sink.
flow == <<pipe, pkt_data, pkt_len, in_flight, call, hist, sink_log>>

\* ------------------------------------------------------------ helpers

TargetLists ==
    UNION {[1..n -> PeerIds] : n \in 0..MaxFloods}
    \cup UNION {[1..n -> WidePeerIds] : n \in 1..MaxWideFloods}

\* The last k elements of s (all of s when it has fewer).
LastK(s, k) == IF Len(s) <= k THEN s ELSE SubSeq(s, Len(s) - k + 1, Len(s))

Count(s, e) == Cardinality({i \in 1..Len(s) : s[i] = e})

NoPeer == -1

\* -------------------------------------------------- the packet source

\* htol16: the two bytes of x as they lie in memory, low byte first.
htol16(x) == <<x % 256, (x \div 256) % 256>>

\* The cursor left where it was.
NextCursor_Stuck(cur, n) == cur % n

\* The cursor advanced without the wrap at the list's end.
NextCursor_NoWrap(cur, n) == cur + 1

\* The cursor sent back to the head of the list after every production.
NextCursor_Reset(cur, n) == 0

\* flood_next = (flood_next + 1) % options.num_floods
NextCursor(cur, n) == (cur + 1) % n

\* The memset one byte short of the body.
WritePayload_ShortMemset(data, peer_id) ==
    [i \in 1..Len(data) |->
        IF i = 1 THEN SCID_OUTMSG
        ELSE IF i = 2 THEN htol16(peer_id)[1]
        ELSE IF i = 3 THEN htol16(peer_id)[2]
        ELSE IF i <= SizeofScHeader + SizeofScClientOutmsg + SC_MAX_MSGLEN - 1 THEN 0
        ELSE data[i]]

\* header->type, msg->clientid, memset of the body: data after the writes.
WritePayload(data, peer_id) ==
    [i \in 1..Len(data) |->
        IF i = 1 THEN SCID_OUTMSG
        ELSE IF i = 2 THEN htol16(peer_id)[1]
        ELSE IF i = 3 THEN htol16(peer_id)[2]
        ELSE IF i <= SizeofScHeader + SizeofScClientOutmsg + SC_MAX_MSGLEN THEN 0
        ELSE data[i]]

\* *data_len of a produced payload.
PayloadLen == SizeofScHeader + SizeofScClientOutmsg + SC_MAX_MSGLEN

\* The assertions on flood_next made whatever the list's length.
SourceFault_Unguarded ==
    IF ~server_ready THEN "flood_source_handler_recv: server_ready"
    ELSE IF flood_blocking THEN "flood_source_handler_recv: !flood_blocking"
    ELSE IF ~(flood_next >= 0)
        THEN "flood_source_handler_recv: flood_next >= 0"
    ELSE IF ~(flood_next < options.num_floods)
        THEN "flood_source_handler_recv: flood_next < options.num_floods"
    ELSE "none"

\* The first ASSERT of flood_source_handler_recv that fails, "none" otherwise.
SourceFault ==
    IF ~server_ready THEN "flood_source_handler_recv: server_ready"
    ELSE IF flood_blocking THEN "flood_source_handler_recv: !flood_blocking"
    ELSE IF options.num_floods > 0 /\ ~(flood_next >= 0)
        THEN "flood_source_handler_recv: flood_next >= 0"
    ELSE IF options.num_floods > 0 /\ ~(flood_next < options.num_floods)
        THEN "flood_source_handler_recv: flood_next < options.num_floods"
    ELSE "none"

\* The header and the body written before the empty list is looked at.
flood_source_handler_recv_WriteFirst(data, data_len) ==
    IF options.num_floods = 0
    THEN [ret |-> 0, data |-> WritePayload(data, 0), data_len |-> data_len,
          flood_blocking |-> TRUE, flood_next |-> flood_next, peer |-> NoPeer]
    ELSE LET peer_id == options.floods[flood_next + 1]
         IN  [ret |-> 1, data |-> WritePayload(data, peer_id), data_len |-> PayloadLen,
              flood_blocking |-> flood_blocking,
              flood_next |-> NextCursor(flood_next, options.num_floods),
              peer |-> peer_id]

\* flood_blocking left as it was when the list is empty.
flood_source_handler_recv_NoBlockFlag(data, data_len) ==
    IF options.num_floods = 0
    THEN [ret |-> 0, data |-> data, data_len |-> data_len,
          flood_blocking |-> flood_blocking, flood_next |-> flood_next, peer |-> NoPeer]
    ELSE LET peer_id == options.floods[flood_next + 1]
         IN  [ret |-> 1, data |-> WritePayload(data, peer_id), data_len |-> PayloadLen,
              flood_blocking |-> flood_blocking,
              flood_next |-> NextCursor(flood_next, options.num_floods),
              peer |-> peer_id]

\* flood_source_handler_recv past its assertions: what it returns and writes.
flood_source_handler_recv(data, data_len) ==
    IF options.num_floods = 0
    THEN [ret |-> 0, data |-> data, data_len |-> data_len,
          flood_blocking |-> TRUE, flood_next |-> flood_next, peer |-> NoPeer]
    ELSE LET peer_id == options.floods[flood_next + 1]
         IN  [ret |-> 1, data |-> WritePayload(data, peer_id), data_len |-> PayloadLen,
              flood_blocking |-> flood_blocking,
              flood_next |-> NextCursor(flood_next, options.num_floods),
              peer |-> peer_id]

\* ------------------------------------------- encoder, buffer, reactor

\* The length field written high byte first.
Encode_BigEndianLength(data, len) ==
    <<htol16(len)[2], htol16(len)[1]>> \o SubSeq(data, 1, len)

\* PacketProtoEncoder: a frame is the payload's byte count, 16 bits low byte
\* first, followed by the payload.
Encode(data, len) == htol16(len) \o SubSeq(data, 1, len)

\* BReactor_Exec dispatches handlers until BReactor_Quit was called.
Running == pc = "event_loop" /\ ~ss.quit

\* A failed ASSERT aborts the process.
Abort(name) ==
    /\ fault' = name
    /\ pc' = "aborted"
    /\ UNCHANGED <<core, life, flow, exit_code, hello_id, last_log>>

\* The buffer leaves its job set after a pull instead of waiting.
PipeAfter_Rearm(ret) == "job"

\* The buffer sets its job again when the pull was declined.
PipeAfter_RetryOnDecline(ret) == IF ret = 1 THEN "sending" ELSE "job"

\* SinglePacketBuffer after a pull: sending the frame it got, or waiting for
\* its input when the pull was declined.
PipeAfter(ret) == IF ret = 1 THEN "sending" ELSE "waiting"

\* The number of the next production, modulo 2.
NextSeq(h) == IF h = <<>> THEN 1 ELSE 1 - h[Len(h)].seq

\* One pull through the encoder into the source, with queue the frames the
\* transport sink still holds: a produced payload is framed and handed to the
\* sink, a decline leaves the buffer waiting for its input.
Pull(queue) ==
    LET f == SourceFault
        r == flood_source_handler_recv(pkt_data, pkt_len)
    IN  IF f # "none"
        THEN /\ fault' = f
             /\ pc' = "aborted"
             /\ in_flight' = queue
             /\ UNCHANGED <<flood_blocking, flood_next, pipe, pkt_data, pkt_len,
                            call, hist, last_log>>
        ELSE /\ flood_blocking' = r.flood_blocking
             /\ flood_next' = r.flood_next
             /\ pkt_data' = r.data
             /\ pkt_len' = r.data_len
             /\ call' = [ret |-> r.ret, pre_data |-> pkt_data, pre_len |-> pkt_len]
             /\ hist' = IF r.ret = 1
                        THEN LastK(Append(hist, [cur |-> flood_next, peer |-> r.peer,
                                                 seq |-> NextSeq(hist)]), HistLen)
                        ELSE hist
             /\ in_flight' = IF r.ret = 1
                             THEN Append(queue, Encode(r.data, r.data_len))
                             ELSE queue
             /\ pipe' = PipeAfter(r.ret)
             /\ last_log' = IF r.ret = 1 THEN <<"message to", r.peer>> ELSE last_log
             /\ UNCHANGED <<fault, pc>>

\* The job SinglePacketBuffer_Init left with the reactor: the first pull.
BufferJob ==
    /\ Running
    /\ objs.flood_buffer = "init"
    /\ pipe = "job"
    /\ Pull(in_flight)
    /\ UNCHANGED <<argv, options, server_ready, my_id, life, exit_code, sink_log, hello_id>>

\* The transport sink accepts the frame it holds and signals capacity; the
\* buffer pulls the next frame.
SinkDone ==
    /\ Running
    /\ objs.flood_buffer = "init"
    /\ objs.server = "ready"
    /\ in_flight # <<>>
    /\ sink_log' = LastK(Append(sink_log, Head(in_flight)), HistLen)
    /\ Pull(Tail(in_flight))
    /\ UNCHANGED <<argv, options, server_ready, my_id, life, exit_code, hello_id>>

\* ------------------------------------------------------- life cycle

InitObj(m, name) ==
    [objs |-> [m.objs EXCEPT ![name] = "init"],
     trace |-> Append(m.trace, <<"init", name>>)]

FreeObj(m, name) ==
    [objs |-> [m.objs EXCEPT ![name] = "freed"],
     trace |-> Append(m.trace, <<"free", name>>)]

\* SinglePacketBuffer_Free left out.
terminate_NoBufferFree(m) ==
    LET a == IF server_ready
             THEN FreeObj(FreeObj(m, "flood_encoder"), "flood_source")
             ELSE m
        b == FreeObj(a, "server")
    IN  /\ objs' = b.objs
        /\ nss' = IF options.ssl THEN "down" ELSE nss
        /\ sig_handler' = FALSE
        /\ dead' = TRUE
        /\ ss' = [quit |-> TRUE, code |-> 1]
        /\ trace' = Append(b.trace, <<"quit", "ss">>)
        /\ last_log' = <<"tearing down">>
        /\ server_ready' = server_ready

\* server_ready cleared once the pipeline is released.
terminate_ResetsReady(m) ==
    LET a == IF server_ready
             THEN FreeObj(FreeObj(FreeObj(m, "flood_buffer"), "flood_encoder"), "flood_source")
             ELSE m
        b == FreeObj(a, "server")
    IN  /\ objs' = b.objs
        /\ nss' = IF options.ssl THEN "down" ELSE nss
        /\ sig_handler' = FALSE
        /\ dead' = TRUE
        /\ ss' = [quit |-> TRUE, code |-> 1]
        /\ trace' = Append(b.trace, <<"quit", "ss">>)
        /\ last_log' = <<"tearing down">>
        /\ server_ready' = FALSE

\* The encoder released before the buffer that pulls from it.
terminate_frees_EncoderFirst(m) ==
    LET a == IF server_ready
             THEN FreeObj(FreeObj(FreeObj(m, "flood_encoder"), "flood_buffer"), "flood_source")
             ELSE m
    IN  FreeObj(a, "server")

\* The pipeline released whether or not it was ever constructed.
terminate_frees_Unconditional(m) ==
    FreeObj(FreeObj(FreeObj(FreeObj(m, "flood_buffer"), "flood_encoder"), "flood_source"),
            "server")

\* The releases of terminate(): the pipeline if server_ready, then the server.
terminate_frees(m) ==
    LET a == IF server_ready
             THEN FreeObj(FreeObj(FreeObj(m, "flood_buffer"), "flood_encoder"), "flood_source")
             ELSE m
    IN  FreeObj(a, "server")

\* BSignal_RemoveHandler left out.
terminate_KeepsSignal(m) ==
    LET b == terminate_frees(m)
    IN  /\ objs' = b.objs
        /\ nss' = IF options.ssl THEN "down" ELSE nss
        /\ sig_handler' = sig_handler
        /\ dead' = TRUE
        /\ ss' = [quit |-> TRUE, code |-> 1]
        /\ trace' = Append(b.trace, <<"quit", "ss">>)
        /\ last_log' = <<"tearing down">>
        /\ server_ready' = server_ready

\* terminate(), entered with the objects and the trace as m.
terminate(m) ==
    LET b == terminate_frees(m)
    IN  /\ objs' = b.objs
        /\ nss' = IF options.ssl THEN "down" ELSE nss
        /\ sig_handler' = FALSE
        /\ dead' = TRUE
        /\ ss' = [quit |-> TRUE, code |-> 1]
        /\ trace' = Append(b.trace, <<"quit", "ss">>)
        /\ last_log' = <<"tearing down">>
        /\ server_ready' = server_ready

signal_handler ==
    /\ Running
    /\ sig_handler
    /\ terminate([objs |-> objs, trace |-> trace])
    /\ UNCHANGED <<argv, options, my_id, flood_blocking, flood_next, flow, pc, exit_code,
                   fault, hello_id>>

server_handler_error ==
    /\ Running
    /\ objs.server \in {"connecting", "ready"}
    /\ terminate([objs |-> objs, trace |-> trace])
    /\ UNCHANGED <<argv, options, my_id, flood_blocking, flood_next, flow, pc, exit_code,
                   fault, hello_id>>

\* server_ready left unset.
ready_ok_NotReady(param_my_id, g, m) ==
    /\ objs' = InitObj(m, "flood_buffer").objs
    /\ trace' = InitObj(m, "flood_buffer").trace
    /\ pipe' = "job"
    /\ pkt_data' = [i \in 1..SC_MAX_ENC |-> g]
    /\ pkt_len' = g
    /\ flood_blocking' = FALSE
    /\ server_ready' = server_ready
    /\ last_log' = <<"server: ready, my ID is", param_my_id>>
    /\ UNCHANGED <<nss, sig_handler, dead, ss>>

\* server_handler_ready once SinglePacketBuffer_Init succeeded, with m the
\* objects and the trace so far and g what the buffer's fresh memory holds:
\* the buffer exists with its first pull left as a job, not blocking, ready.
ready_ok(param_my_id, g, m) ==
    /\ objs' = InitObj(m, "flood_buffer").objs
    /\ trace' = InitObj(m, "flood_buffer").trace
    /\ pipe' = "job"
    /\ pkt_data' = [i \in 1..SC_MAX_ENC |-> g]
    /\ pkt_len' = g
    /\ flood_blocking' = FALSE
    /\ server_ready' = TRUE
    /\ last_log' = <<"server: ready, my ID is", param_my_id>>
    /\ UNCHANGED <<nss, sig_handler, dead, ss>>

\* param_my_id not remembered.
server_handler_ready_NoId(param_my_id, buf_ok, g) ==
    /\ Running
    /\ objs.server = "connecting"
    /\ IF server_ready
       THEN Abort("server_handler_ready: !server_ready")
       ELSE LET m0 == [objs |-> [objs EXCEPT !.server = "ready"], trace |-> trace]
                m2 == InitObj(InitObj(m0, "flood_source"), "flood_encoder")
            IN  /\ my_id' = my_id
                /\ hello_id' = param_my_id
                /\ IF buf_ok
                   THEN ready_ok(param_my_id, g, m2)
                   ELSE /\ terminate(FreeObj(FreeObj(m2, "flood_encoder"), "flood_source"))
                        /\ UNCHANGED <<pipe, pkt_data, pkt_len, flood_blocking>>
                /\ UNCHANGED <<argv, options, flood_next, in_flight, call, hist, sink_log,
                               pc, exit_code, fault>>

\* fail1 without its two releases: straight to terminate().
server_handler_ready_NoCleanup(param_my_id, buf_ok, g) ==
    /\ Running
    /\ objs.server = "connecting"
    /\ IF server_ready
       THEN Abort("server_handler_ready: !server_ready")
       ELSE LET m0 == [objs |-> [objs EXCEPT !.server = "ready"], trace |-> trace]
                m2 == InitObj(InitObj(m0, "flood_source"), "flood_encoder")
            IN  /\ my_id' = param_my_id
                /\ hello_id' = param_my_id
                /\ IF buf_ok
                   THEN ready_ok(param_my_id, g, m2)
                   ELSE /\ terminate(m2)
                        /\ UNCHANGED <<pipe, pkt_data, pkt_len, flood_blocking>>
                /\ UNCHANGED <<argv, options, flood_next, in_flight, call, hist, sink_log,
                               pc, exit_code, fault>>

\* server_handler_ready with the identifier the server assigned; buf_ok is
\* whether SinglePacketBuffer_Init succeeds.  The transport calls it on the
\* server's hello, which ends its connecting state.
server_handler_ready(param_my_id, buf_ok, g) ==
    /\ Running
    /\ objs.server = "connecting"
    /\ IF server_ready
       THEN Abort("server_handler_ready: !server_ready")
       ELSE LET m0 == [objs |-> [objs EXCEPT !.server = "ready"], trace |-> trace]
                m2 == InitObj(InitObj(m0, "flood_source"), "flood_encoder")
            IN  /\ my_id' = param_my_id
                /\ hello_id' = param_my_id
                /\ IF buf_ok
                   THEN ready_ok(param_my_id, g, m2)
                   ELSE /\ terminate(FreeObj(FreeObj(m2, "flood_encoder"), "flood_source"))
                        /\ UNCHANGED <<pipe, pkt_data, pkt_len, flood_blocking>>
                /\ UNCHANGED <<argv, options, flood_next, in_flight, call, hist, sink_log,
                               pc, exit_code, fault>>

\* BReactor_Exec returned: main frees the reactor and returns its code.
main_exit ==
    /\ pc = "event_loop"
    /\ ss.quit
    /\ pc' = "exited"
    /\ exit_code' = ss.code
    /\ UNCHANGED <<core, life, flow, fault, hello_id, last_log>>

\* ------------------------------------------------- side channel events

server_handler_newclient(peer_id) ==
    /\ Running
    /\ objs.server = "ready"
    /\ IF ~server_ready
       THEN Abort("server_handler_newclient: server_ready")
       ELSE /\ last_log' = <<"newclient", peer_id>>
            /\ UNCHANGED <<core, life, flow, pc, exit_code, fault, hello_id>>

server_handler_endclient(peer_id) ==
    /\ Running
    /\ objs.server = "ready"
    /\ IF ~server_ready
       THEN Abort("server_handler_endclient: server_ready")
       ELSE /\ last_log' = <<"endclient", peer_id>>
            /\ UNCHANGED <<core, life, flow, pc, exit_code, fault, hello_id>>

\* An inbound message taken as the event that unblocks the source.
server_handler_message_Unblocks(peer_id, data_len) ==
    /\ Running
    /\ objs.server = "ready"
    /\ IF ~server_ready
       THEN Abort("server_handler_message: server_ready")
       ELSE /\ last_log' = <<"message from", peer_id>>
            /\ flood_blocking' = FALSE
            /\ UNCHANGED <<argv, options, server_ready, my_id, flood_next, life, flow, pc,
                           exit_code, fault, hello_id>>

server_handler_message(peer_id, data_len) ==
    /\ Running
    /\ objs.server = "ready"
    /\ IF ~server_ready
       THEN Abort("server_handler_message: server_ready")
       ELSE IF ~(data_len >= 0)
       THEN Abort("server_handler_message: data_len >= 0")
       ELSE IF ~(data_len <= SC_MAX_MSGLEN)
       THEN Abort("server_handler_message: data_len <= SC_MAX_MSGLEN")
       ELSE /\ last_log' = <<"message from", peer_id>>
            /\ UNCHANGED <<core, life, flow, pc, exit_code, fault, hello_id>>

\* ------------------------------------------------- command-line parsing

\* A pointer option that was not given.
NULL == "(null)"

\* The numbers atoi reads from the tokens drawn; a token without leading
\* digits reads as 0.
atoi(tok) ==
    CASE tok = "3" -> 3
      [] tok = "7" -> 7
      [] tok = "9" -> 9
      [] tok = "258" -> 258
      [] tok = "65539" -> 65539
      [] OTHER -> 0

\* An int stored in a peerid_t (uint16_t) field.
peerid(x) == x % 65536

\* parse_loglevel: a level's number or name, -1 otherwise.
parse_loglevel(tok) ==
    CASE tok \in {"0", "none"} -> 0
      [] tok \in {"1", "error"} -> 1
      [] tok \in {"2", "warning"} -> 2
      [] tok \in {"3", "notice"} -> 3
      [] tok \in {"4", "info"} -> 4
      [] tok \in {"5", "debug"} -> 5
      [] OTHER -> -1

\* BLogGlobal_GetChannelByName: the channel's index, -1 for an unknown name.
BLogGlobal_GetChannelByName(tok) == IF tok = "flooder" THEN 0 ELSE -1

\* What parse_arguments sets before its loop.
DefaultOptions ==
    [ret |-> 1, help |-> FALSE, version |-> FALSE, logger |-> "stdout",
     loglevel |-> -1, channel_loglevel |-> -1, ssl |-> FALSE, nssdb |-> NULL,
     client_cert_name |-> NULL, server_name |-> NULL, server_addr |-> NULL,
     floods |-> <<>>, num_floods |-> 0]

\* The new entry put in front of the list.
store_flood_Prepends(o, tok) ==
    IF o.num_floods = MaxFloods
        THEN [o EXCEPT !.ret = 0]
        ELSE [o EXCEPT !.floods = <<peerid(atoi(tok))>> \o @,
                       !.num_floods = @ + 1]

\* --flood-id with its argument present: rejected when the array is full,
\* stored at floods[num_floods] otherwise.
store_flood(o, tok) ==
    IF o.num_floods = MaxFloods
        THEN [o EXCEPT !.ret = 0]
        ELSE [o EXCEPT !.floods = Append(@, peerid(atoi(tok))),
                       !.num_floods = @ + 1]

\* The options that take one argument and store it as given.
PointerOptions ==
    {"--syslog-facility", "--syslog-ident", "--nssdb", "--client-cert-name",
     "--server-name", "--server-addr"}

\* The option arg with its argument a, applied to o.
one_argument(o, arg, a) ==
    CASE arg = "--logger" ->
            IF a \in {"stdout", "syslog"} THEN [o EXCEPT !.logger = a]
                                          ELSE [o EXCEPT !.ret = 0]
      [] arg = "--loglevel" ->
            IF parse_loglevel(a) < 0 THEN [o EXCEPT !.ret = 0]
                                     ELSE [o EXCEPT !.loglevel = parse_loglevel(a)]
      [] arg = "--nssdb" -> [o EXCEPT !.nssdb = a]
      [] arg = "--client-cert-name" -> [o EXCEPT !.client_cert_name = a]
      [] arg = "--server-name" -> [o EXCEPT !.server_name = a]
      [] arg = "--server-addr" -> [o EXCEPT !.server_addr = a]
      [] arg = "--flood-id" -> store_flood(o, a)
      [] OTHER -> o

\* The loop of parse_arguments from index i (argv[0] is args[1]).
RECURSIVE parse_loop(_, _, _)
parse_loop(args, i, o) ==
    LET argc == Len(args)
        arg == args[i + 1]
        step(o2, n) == IF o2.ret = 0 THEN o2 ELSE parse_loop(args, i + n, o2)
    IN  IF i >= argc THEN o
        ELSE IF arg = "--help" THEN step([o EXCEPT !.help = TRUE], 1)
        ELSE IF arg = "--version" THEN step([o EXCEPT !.version = TRUE], 1)
        ELSE IF arg = "--ssl" THEN step([o EXCEPT !.ssl = TRUE], 1)
        ELSE IF arg \in PointerOptions \cup {"--logger", "--loglevel", "--flood-id"}
            THEN IF 1 >= argc - i
                    THEN [o EXCEPT !.ret = 0]
                    ELSE step(one_argument(o, arg, args[i + 2]), 2)
        ELSE IF arg = "--channel-loglevel"
            THEN IF 2 >= argc - i
                    THEN [o EXCEPT !.ret = 0]
                 ELSE IF BLogGlobal_GetChannelByName(args[i + 2]) < 0
                    THEN [o EXCEPT !.ret = 0]
                 ELSE IF parse_loglevel(args[i + 3]) < 0
                    THEN [o EXCEPT !.ret = 0]
                 ELSE step([o EXCEPT !.channel_loglevel = parse_loglevel(args[i + 3])], 3)
        ELSE [o EXCEPT !.ret = 0]

\* The checks after the loop, without the one for --server-addr.
check_options_NoServerAddr(o) ==
    IF o.ret = 0 \/ o.help \/ o.version THEN o
    ELSE IF o.ssl # (o.nssdb # NULL) THEN [o EXCEPT !.ret = 0]
    ELSE IF o.ssl # (o.client_cert_name # NULL) THEN [o EXCEPT !.ret = 0]
    ELSE o

\* The checks of parse_arguments after its loop.
check_options(o) ==
    IF o.ret = 0 \/ o.help \/ o.version THEN o
    ELSE IF o.ssl # (o.nssdb # NULL) THEN [o EXCEPT !.ret = 0]
    ELSE IF o.ssl # (o.client_cert_name # NULL) THEN [o EXCEPT !.ret = 0]
    ELSE IF o.server_addr = NULL THEN [o EXCEPT !.ret = 0]
    ELSE o

parse_arguments(args) ==
    IF Len(args) <= 0
        THEN [DefaultOptions EXCEPT !.ret = 0]
        ELSE check_options(parse_loop(args, 1, DefaultOptions))

\* main up to the event loop's preparations: argc checked, the arguments
\* parsed, --help and --version answered.
main_parse ==
    /\ pc = "main"
    /\ LET o == parse_arguments(argv)
       IN  /\ options' = [floods |-> o.floods, num_floods |-> o.num_floods,
                          ssl |-> o.ssl]
           /\ IF o.ret = 0
                 THEN /\ pc' = "exited"
                      /\ exit_code' = 1
                      /\ last_log' = IF Len(argv) <= 0
                                        THEN last_log
                                        ELSE <<"Failed to parse arguments">>
              ELSE IF o.help \/ o.version
                 THEN /\ pc' = "exited"
                      /\ exit_code' = 0
                      /\ last_log' = <<"version">>
              ELSE /\ pc' = "init"
                   /\ UNCHANGED <<exit_code, last_log>>
    /\ UNCHANGED <<argv, server_ready, my_id, flood_blocking, flood_next, life,
                   flow, fault, hello_id>>

\* main from the logger to ServerConnection_Init: every step done (ok), or
\* one of them failed and what was built before it released again.
main_init(ok) ==
    /\ pc = "init"
    /\ IF ok
          THEN /\ nss' = IF options.ssl THEN "up" ELSE "off"
               /\ sig_handler' = TRUE
               /\ objs' = [objs EXCEPT !.server = "connecting"]
               /\ trace' = Append(trace, <<"init", "server">>)
               /\ server_ready' = FALSE
               /\ pc' = "event_loop"
               /\ last_log' = <<"entering event loop">>
               /\ UNCHANGED exit_code
          ELSE /\ pc' = "exited"
               /\ exit_code' = 1
               /\ last_log' = <<"initialization failed">>
               /\ UNCHANGED <<nss, sig_handler, objs, trace, server_ready>>
    /\ UNCHANGED <<argv, options, my_id, flood_blocking, flood_next, dead, ss,
                   flow, fault, hello_id>>

\* ---------------------------------------------------- command lines

\* --flood-id given once for each token of toks, in order.
FloodArgs(toks) ==
    [k \in 1..(2 * Len(toks)) |->
        IF k % 2 = 1 THEN "--flood-id" ELSE toks[k \div 2]]

\* The session options of names, each with its argument.
OptionArgs(names) ==
    (IF "--server-addr" \in names THEN <<"--server-addr", "addr">> ELSE <<>>)
    \o (IF "--ssl" \in names THEN <<"--ssl">> ELSE <<>>)
    \o (IF "--nssdb" \in names THEN <<"--nssdb", "db">> ELSE <<>>)
    \o (IF "--client-cert-name" \in names THEN <<"--client-cert-name", "cert">>
                                          ELSE <<>>)

\* The options a session with or without --ssl needs.
SessionOptions(ssl) ==
    IF ssl THEN {"--server-addr", "--ssl", "--nssdb", "--client-cert-name"}
           ELSE {"--server-addr"}

\* The decimal token of a peer id.
Token(id) == CHOOSE t \in {"3", "7", "9", "258"} : atoi(t) = id

\* A command line that parses to the TargetList fl, with or without --ssl.
CommandLine(fl, ssl) ==
    <<"flooder">> \o OptionArgs(SessionOptions(ssl))
                  \o FloodArgs([k \in 1..Len(fl) |-> Token(fl[k])])

\* The tokens --flood-id is given on the command lines drawn: one in the
\* range of peerid_t and one beyond it.
FloodTokens == {"7", "65539"}

\* What the command lines drawn end with: nothing, options that are
\* accepted, and the ways in which an option can be wrong.
Tails ==
    {<<>>, <<"--logger", "syslog">>, <<"--channel-loglevel", "flooder", "debug">>,
     <<"--server-name", "--frobnicate">>, <<"--help">>, <<"--version">>,
     <<"--frobnicate">>, <<"--flood-id">>, <<"--nssdb">>, <<"--loglevel", "loud">>}

\* The command lines drawn: any subset of the session options, up to one
\* --flood-id more than the array holds, and a tail; and the empty one.
Argvs ==
    {<<>>} \cup
    {<<"flooder">> \o OptionArgs(names) \o FloodArgs(toks) \o tail :
        names \in SUBSET SessionOptions(TRUE),
        toks \in UNION {[1..n -> FloodTokens] : n \in 0..(MaxFloods + 1)},
        tail \in Tails}

\* ------------------------------------------------------ specification

\* The state in which main enters the event loop: the arguments parsed,
\* ServerConnection_Init done, server_ready = 0, the other globals zero.
Init ==
    /\ \E fl \in TargetLists, ssl \in BOOLEAN :
          /\ argv = CommandLine(fl, ssl)
          /\ options = [floods |-> fl, num_floods |-> Len(fl), ssl |-> ssl]
          /\ nss = IF ssl THEN "up" ELSE "off"
    /\ server_ready = FALSE
    /\ my_id = 0
    /\ flood_blocking = FALSE
    /\ flood_next = 0
    /\ objs = [flood_source |-> "uninit", flood_encoder |-> "uninit",
               flood_buffer |-> "uninit", server |-> "connecting"]
    /\ sig_handler = TRUE
    /\ dead = FALSE
    /\ ss = [quit |-> FALSE, code |-> 0]
    /\ pc = "event_loop"
    /\ exit_code = -1
    /\ fault = "none"
    /\ pipe = "none"
    /\ pkt_data = <<>>
    /\ pkt_len = 0
    /\ in_flight = <<>>
    /\ call = [ret |-> -1, pre_data |-> <<>>, pre_len |-> 0]
    /\ hist = <<>>
    /\ sink_log = <<>>
    /\ trace = <<<<"init", "server">>>>
    /\ hello_id = 0
    /\ last_log = <<"entering event loop">>

Ready == \E id \in MyIds, ok \in BOOLEAN, g \in GarbageBytes : server_handler_ready(id, ok, g)
NewClient == \E p \in SidePeers : server_handler_newclient(p)
EndClient == \E p \in SidePeers : server_handler_endclient(p)
Message == \E p \in SidePeers, n \in 0..SC_MAX_MSGLEN : server_handler_message(p, n)

Next ==
    \/ Ready
    \/ BufferJob
    \/ SinkDone
    \/ NewClient
    \/ EndClient
    \/ Message
    \/ signal_handler
    \/ server_handler_error
    \/ main_exit

Spec == Init /\ [][Next]_vars

\* The state in which main is entered: a command line, every global zero.
InitArgs ==
    /\ argv \in Argvs
    /\ options = [floods |-> <<>>, num_floods |-> 0, ssl |-> FALSE]
    /\ nss = "off"
    /\ server_ready = FALSE
    /\ my_id = 0
    /\ flood_blocking = FALSE
    /\ flood_next = 0
    /\ objs = [flood_source |-> "uninit", flood_encoder |-> "uninit",
               flood_buffer |-> "uninit", server |-> "uninit"]
    /\ sig_handler = FALSE
    /\ dead = FALSE
    /\ ss = [quit |-> FALSE, code |-> 0]
    /\ pc = "main"
    /\ exit_code = -1
    /\ fault = "none"
    /\ pipe = "none"
    /\ pkt_data = <<>>
    /\ pkt_len = 0
    /\ in_flight = <<>>
    /\ call = [ret |-> -1, pre_data |-> <<>>, pre_len |-> 0]
    /\ hist = <<>>
    /\ sink_log = <<>>
    /\ trace = <<>>
    /\ hello_id = 0
    /\ last_log = <<>>

MainInit == \E ok \in BOOLEAN : main_init(ok)

NextArgs ==
    \/ main_parse
    \/ MainInit
    \/ Next

\* The process from the entry of main.
SpecArgs == InitArgs /\ [][NextArgs]_vars

\* Peer ids of the runs checked for progress: two values, so that a list
\* can hold distinct and repeated entries at every length up to MaxFloods.
LivePeerIds == {3, 7}

\* The event loop entered without --ssl and with a TargetList over
\* LivePeerIds.
InitLive ==
    /\ Init
    /\ ~options.ssl
    /\ \A k \in 1..options.num_floods : options.floods[k] \in LivePeerIds

\* The reactor runs the job the buffer left with it, and the transport sink
\* eventually accepts a frame it holds.
SpecLive == InitLive /\ [][Next]_vars /\ WF_vars(BufferJob) /\ WF_vars(SinkDone)

\* ------------------------------------------------------------ claims

Peers(h) == [i \in 1..Len(h) |-> h[i].peer]

\* C1: any N consecutive productions, N the length of a non-empty
\* TargetList, select TargetList read cyclically from the cursor the first of
\* them started at, and leave the cursor at that value again; the first
\* production starts at cursor 0, so TargetList = [7, 3, 3, 9] yields
\* 7, 3, 3, 9, 7.
C1_RoundRobin ==
    LET N == options.num_floods
    IN  /\ N > 0 =>
            \A s \in 1..Len(hist) :
                s + N - 1 <= Len(hist) =>
                    LET start == hist[s].cur
                        after == IF s + N <= Len(hist) THEN hist[s + N].cur ELSE flood_next
                    IN  /\ \A k \in 0..(N - 1) :
                              hist[s + k].peer = options.floods[((start + k) % N) + 1]
                        /\ after = start
        /\ (hist # <<>> /\ Len(hist) < HistLen) => hist[1].cur = 0
        /\ (options.floods = <<7, 3, 3, 9>> /\ Len(hist) = 5) => Peers(hist) = <<7, 3, 3, 9, 7>>

C1_Witness ==
    /\ options.floods = <<7, 3, 3, 9>>
    /\ Peers(hist) = <<7, 3, 3, 9, 7>>
    /\ flood_next = 1

\* C2: the source can be invoked only while server_ready is true and the
\* reactor has not been told to quit; its ASSERT(server_ready) never fails.
C2_SourceOnlyWhileReady ==
    /\ fault # "flood_source_handler_recv: server_ready"
    /\ (ENABLED BufferJob \/ ENABLED SinkDone) => (server_ready /\ ~ss.quit)
    /\ call.ret # -1 => server_ready

C2_Witness ==
    /\ server_ready
    /\ call.ret = 1
    /\ ENABLED SinkDone

\* C3: at most one frame is in flight between the source and the transport
\* sink, and while one is the buffer does not pull: its next pull is the one
\* that follows the sink's acceptance.
C3_SingleSlot ==
    /\ Len(in_flight) <= 1
    /\ in_flight # <<>> => (pipe = "sending" /\ ~ENABLED BufferJob)
    /\ pipe = "sending" => in_flight # <<>>

C3_Witness ==
    /\ Len(in_flight) = 1
    /\ Len(sink_log) >= 2

\* C4: with an empty TargetList a pull is declined, sets flood_blocking,
\* leaves the memory and the length it was handed as they were, and no frame
\* is ever produced, in flight or accepted by the sink.
C4_EmptyListDeclines ==
    options.num_floods = 0 =>
        /\ hist = <<>>
        /\ in_flight = <<>>
        /\ sink_log = <<>>
        /\ call.ret # -1 =>
              /\ call.ret = 0
              /\ flood_blocking
              /\ pkt_data = call.pre_data
              /\ pkt_len = call.pre_len
              /\ pipe = "waiting"

C4_Witness ==
    /\ options.num_floods = 0
    /\ call.ret = 0
    /\ flood_blocking
    /\ \E i \in 1..Len(pkt_data) : pkt_data[i] # 0

\* C5: a produced payload has type SCID_OUTMSG, the peer selected at the
\* cursor before the advance as its target, low byte first, a body of
\* SC_MAX_MSGLEN zero bytes, and the length of header, target and body.
C5_PayloadLayout ==
    call.ret = 1 =>
        LET sel == options.floods[hist[Len(hist)].cur + 1]
            body == SizeofScHeader + SizeofScClientOutmsg
        IN  /\ hist[Len(hist)].peer = sel
            /\ pkt_data[1] = SCID_OUTMSG
            /\ pkt_data[2] = sel % 256
            /\ pkt_data[3] = sel \div 256
            /\ \A i \in (body + 1)..(body + SC_MAX_MSGLEN) : pkt_data[i] = 0
            /\ pkt_len = body + SC_MAX_MSGLEN
            /\ Len(pkt_data) >= pkt_len

C5_Witness ==
    /\ call.ret = 1
    /\ \E i \in 4..Len(call.pre_data) : call.pre_data[i] = 255
    /\ pkt_data[2] = 2
    /\ pkt_data[3] = 1

FloodObjs == {"flood_buffer", "flood_encoder", "flood_source"}

\* C6: once terminate() has run from the ready state (on a transport error
\* or a signal), the buffer, the encoder, the source and the transport
\* connection have each been released exactly once, the reactor has been told
\* once to quit, with code 1, which main returns, and the source can no
\* longer be invoked.
C6_TeardownFromReady ==
    (server_ready /\ ss.quit) =>
        /\ \A o \in FloodObjs \cup {"server"} :
              /\ Count(trace, <<"free", o>>) = 1
              /\ objs[o] = "freed"
        /\ Count(trace, <<"quit", "ss">>) = 1
        /\ ss.code = 1
        /\ pc = "exited" => exit_code = 1
        /\ ~ENABLED BufferJob
        /\ ~ENABLED SinkDone

C6_Witness ==
    /\ server_ready
    /\ pc = "exited"
    /\ exit_code = 1
    /\ call.ret = 1
    /\ in_flight # <<>>

\* C7: with a non-empty TargetList the cursor is an index of it in every
\* state, and the two assertions on flood_next never fail.
C7_CursorInRange ==
    /\ options.num_floods > 0 => (0 <= flood_next /\ flood_next < options.num_floods)
    /\ fault \notin {"flood_source_handler_recv: flood_next >= 0",
                     "flood_source_handler_recv: flood_next < options.num_floods"}

C7_Witness ==
    /\ options.num_floods = MaxFloods
    /\ hist # <<>>
    /\ hist[Len(hist)].cur = options.num_floods - 1
    /\ flood_next = 0

\* C8: server_ready, once true, stays true; it becomes true only in a step
\* of server_handler_ready; and the transport connection, once it has left
\* its connecting state, never returns to it.
C8_ReadyOnce ==
    [][/\ server_ready => server_ready'
       /\ (~server_ready /\ server_ready') => Ready
       /\ objs.server # "connecting" => objs'.server # "connecting"]_vars

C8_Witness ==
    /\ server_ready
    /\ objs.server = "freed"
    /\ pc = "exited"

\* C9: the source, the encoder and the buffer are each constructed at most
\* once, and only in a step of server_handler_ready; the step that makes the
\* session ready leaves all three constructed, flood_blocking false and my_id
\* equal to the identifier the callback supplied.
C9_ConstructedOnReady ==
    [][/\ \A o \in FloodObjs : Count(trace', <<"init", o>>) <= 1
       /\ (\E o \in FloodObjs : Count(trace', <<"init", o>>) # Count(trace, <<"init", o>>))
             => Ready
       /\ (~server_ready /\ server_ready') =>
             /\ ~flood_blocking'
             /\ my_id' = hello_id'
             /\ \A o \in FloodObjs :
                   /\ objs'[o] = "init"
                   /\ Count(trace', <<"init", o>>) = 1]_vars

C9_Witness ==
    /\ server_ready
    /\ pipe = "job"
    /\ my_id = 2
    /\ hello_id = 2
    /\ \A o \in FloodObjs : objs[o] = "init"

SideLines == {"newclient", "endclient", "message from"}

SideFaults ==
    {"server_handler_newclient: server_ready",
     "server_handler_endclient: server_ready",
     "server_handler_message: server_ready"}

\* C10: peer-joined, peer-left and inbound-message events are delivered only
\* while server_ready is true, their assertions never fail, and the step that
\* handles one (it logs the event) changes nothing else: not server_ready,
\* my_id, flood_blocking, flood_next, the TargetList, the pipeline or the
\* life cycle, and it does not terminate.
C10_SideChannelFrame ==
    [][/\ fault' \notin SideFaults
       /\ (ENABLED NewClient \/ ENABLED EndClient \/ ENABLED Message) => server_ready
       /\ (last_log' # last_log /\ last_log'[1] \in SideLines) =>
             /\ server_ready
             /\ UNCHANGED <<core, life, flow, pc, exit_code, fault, hello_id>>]_vars

C10_Witness ==
    /\ last_log[1] = "message from"
    /\ flood_blocking
    /\ pc = "event_loop"
    /\ ~ss.quit

\* The last k events of the trace.
TraceTail(k) == SubSeq(trace, Len(trace) - k + 1, Len(trace))

\* C11: terminate() run from the ready state releases the buffer, then the
\* encoder, then the source, then the transport connection, and tells the
\* reactor to quit only after the four releases.
C11_TeardownOrder ==
    (server_ready /\ ss.quit) =>
        /\ Len(trace) >= 5
        /\ TraceTail(5) = <<<<"free", "flood_buffer">>, <<"free", "flood_encoder">>,
                            <<"free", "flood_source">>, <<"free", "server">>,
                            <<"quit", "ss">>>>

C11_Witness ==
    /\ server_ready
    /\ ss.quit
    /\ pc = "event_loop"
    /\ call.ret = 0
    /\ trace[Len(trace)] = <<"quit", "ss">>

\* C12: terminate() runs at most once, whichever of the signal, the transport
\* error and the buffer's failed construction trigger it: the reactor is told
\* to quit at most once and the transport is released at most once; once it
\* ran the signal handler is removed, the transport is freed and none of the
\* triggers can fire.
C12_TerminateOnce ==
    /\ Count(trace, <<"quit", "ss">>) <= 1
    /\ Count(trace, <<"free", "server">>) <= 1
    /\ ss.quit =>
          /\ Count(trace, <<"quit", "ss">>) = 1
          /\ ~sig_handler
          /\ objs.server = "freed"
          /\ dead
          /\ ~ENABLED signal_handler
          /\ ~ENABLED server_handler_error
          /\ ~ENABLED Ready

C12_Witness ==
    /\ ss.quit
    /\ ~server_ready
    /\ Count(trace, <<"init", "flood_encoder">>) = 1
    /\ pc = "exited"

\* C13: a declined pull is no failure: no assertion fails on an empty
\* TargetList, the step in which the source declines leaves the session
\* ready and releases nothing, tells the reactor nothing and sets no exit
\* code, and a declined session stays up until a termination trigger fires.
C13_DeclineIsNoFailure ==
    [][/\ options.num_floods = 0 => fault' = "none"
       /\ (call.ret # 0 /\ call'.ret = 0) =>
             /\ server_ready'
             /\ UNCHANGED <<life, pc, exit_code, fault>>
       /\ (call.ret = 0 /\ ~ss.quit) =>
             /\ server_ready
             /\ \A o \in FloodObjs : objs[o] = "init"
             /\ objs.server = "ready"
             /\ pc = "event_loop"
             /\ exit_code = -1]_vars

C13_Witness ==
    /\ call.ret = 0
    /\ last_log[1] = "endclient"
    /\ ~ss.quit
    /\ \A o \in FloodObjs : objs[o] = "init"

\* The frames the encoder produced that the history still holds, oldest first.
Frames == sink_log \o in_flight

\* The target a frame's payload names.
FrameTarget(f) == f[4] + 256 * f[5]

\* C14: the encoder produces a frame exactly when the source produced a
\* payload: every frame is a 16-bit length, equal to the byte count of what
\* follows it, followed by the payload; the latest frame carries the latest
\* payload; and the frames correspond one to one, in order, to the
\* productions.
C14_EncoderOneToOne ==
    /\ \A j \in 1..Len(Frames) :
          /\ Len(Frames[j]) > 2
          /\ Frames[j][1] + 256 * Frames[j][2] = Len(Frames[j]) - 2
    /\ call.ret = 1 =>
          /\ Frames # <<>>
          /\ SubSeq(Frames[Len(Frames)], 3, Len(Frames[Len(Frames)]))
                = SubSeq(pkt_data, 1, pkt_len)
    /\ call.ret # 1 => Frames = <<>>
    /\ Len(hist) < HistLen => Len(Frames) = Len(hist)
    /\ Len(hist) = HistLen => Len(Frames) >= HistLen
    /\ \A k \in 0..(Len(hist) - 1) :
          k < Len(Frames) =>
              FrameTarget(Frames[Len(Frames) - k]) = hist[Len(hist) - k].peer

C14_Witness ==
    /\ Len(sink_log) = 2
    /\ Len(in_flight) = 1
    /\ FrameTarget(sink_log[1]) = 258
    /\ FrameTarget(sink_log[2]) = 7
    /\ FrameTarget(in_flight[1]) = 258

\* C17: once the session is ready, flood_blocking is true exactly when the
\* latest pull was declined, which is exactly when the TargetList is empty
\* and a pull has occurred; after a production it is false.
C17_BlockedIffDeclined ==
    server_ready =>
        /\ flood_blocking <=> call.ret = 0
        /\ flood_blocking <=> (options.num_floods = 0 /\ call.ret # -1)
        /\ call.ret = 1 => ~flood_blocking

C17_Witness ==
    /\ server_ready
    /\ flood_blocking
    /\ call.ret = 0
    /\ pc = "exited"

C20_TeardownWhileConnecting ==
    (ss.quit /\ Count(trace, <<"init", "flood_source">>) = 0) =>
        /\ ~server_ready
        /\ trace = <<<<"init", "server">>, <<"free", "server">>, <<"quit", "ss">>>>
        /\ \A o \in FloodObjs : objs[o] = "uninit"
        /\ objs.server = "freed"
        /\ ss.code = 1
        /\ pc = "exited" => exit_code = 1
        /\ call.ret = -1
        /\ hist = <<>>
        /\ Frames = <<>>

C20_Witness ==
    /\ ss.quit
    /\ Count(trace, <<"init", "flood_source">>) = 0
    /\ pc = "exited"
    /\ exit_code = 1

\* The latest production was made at cursor i, for the peer listed there.
ProducedAt(i) ==
    /\ hist # <<>>
    /\ hist[Len(hist)].cur = i
    /\ hist[Len(hist)].peer = options.floods[i + 1]

\* The latest production has number n modulo 2.
ProducedSeq(n) == hist # <<>> /\ hist[Len(hist)].seq = n

\* The premise of C19 has failed: the session is not ready, or terminate()
\* has run.  server_ready is never reset and ss.quit is never cleared, so a
\* behaviour that becomes ready and never terminates leaves this false from
\* some point on.
NotFlooding == ~server_ready \/ ss.quit

\* C19: if the session becomes ready and terminate() never runs, then with
\* a non-empty TargetList productions never cease (their number keeps
\* changing parity) and every index of the TargetList is produced at again
\* and again.
C19_NoStarvation ==
    /\ \A i \in 0..(MaxFloods - 1) :
          []<>(NotFlooding \/ i >= options.num_floods \/ ProducedAt(i))
    /\ \A n \in 0..1 :
          []<>(NotFlooding \/ options.num_floods = 0 \/ ProducedSeq(n))

C19_Witness ==
    /\ options.num_floods = MaxFloods
    /\ Len(hist) = HistLen
    /\ ProducedAt(MaxFloods - 1)
    /\ ~NotFlooding

\* How many arguments an option takes.
Arity(tok) ==
    CASE tok \in PointerOptions \cup {"--logger", "--loglevel", "--flood-id"} -> 1
      [] tok = "--channel-loglevel" -> 2
      [] OTHER -> 0

\* The indices of args, from i on, that hold an option and not the argument
\* of one (argv[0] is args[1]).
RECURSIVE OptionIndices(_, _)
OptionIndices(args, i) ==
    IF i >= Len(args) THEN {}
    ELSE {i} \cup OptionIndices(args, i + 1 + Arity(args[i + 1]))

Given(args, name) == \E i \in OptionIndices(args, 1) : args[i + 1] = name

MissingArgument(args) ==
    \E i \in OptionIndices(args, 1) : i + Arity(args[i + 1]) > Len(args) - 1

UnknownOption(args) ==
    \E i \in OptionIndices(args, 1) :
        /\ Arity(args[i + 1]) = 0
        /\ args[i + 1] \notin {"--help", "--version", "--ssl"}

\* Where --flood-id stands with its argument after it.
FloodIndices(args) ==
    {i \in OptionIndices(args, 1) : args[i + 1] = "--flood-id" /\ i + 1 < Len(args)}

TooManyFloods(args) == Cardinality(FloodIndices(args)) > MaxFloods

\* The session options do not fit together, and neither --help nor
\* --version asks for an answer instead of a session.
Inconsistent(args) ==
    /\ ~Given(args, "--help")
    /\ ~Given(args, "--version")
    /\ \/ Given(args, "--ssl") # Given(args, "--nssdb")
       \/ Given(args, "--ssl") # Given(args, "--client-cert-name")
       \/ ~Given(args, "--server-addr")

\* The configuration errors C15 lists.
ConfigError(args) ==
    /\ Len(args) > 0
    /\ \/ MissingArgument(args)
       \/ UnknownOption(args)
       \/ TooManyFloods(args)
       \/ Inconsistent(args)

\* C15: once main has parsed a command line with a configuration error
\* (an option without its argument, an unknown option, --ssl without --nssdb
\* or --client-cert-name or the reverse, no --server-addr, more than
\* MaxFloods --flood-id), it has returned 1, and nothing was ever built:
\* no signal handler on a reactor, no ServerConnection, no pipeline; the
\* session is not ready and no payload was produced.
C15_ConfigErrorExitsEarly ==
    (ConfigError(argv) /\ pc # "main") =>
        /\ pc = "exited"
        /\ exit_code = 1
        /\ \A name \in DOMAIN objs : objs[name] = "uninit"
        /\ trace = <<>>
        /\ ~sig_handler
        /\ nss = "off"
        /\ ~server_ready
        /\ pipe = "none"
        /\ hist = <<>>
        /\ in_flight = <<>>

C15_Witness ==
    /\ pc = "exited"
    /\ exit_code = 1
    /\ TooManyFloods(argv)
    /\ ~MissingArgument(argv)
    /\ ~UnknownOption(argv)
    /\ ~Inconsistent(argv)

\* The values of the --flood-id entries of args, in the order given.
FloodValues(args) ==
    LET at == FloodIndices(args)
        nth(k) == CHOOSE i \in at : Cardinality({j \in at : j < i}) = k - 1
    IN  [k \in 1..Cardinality(at) |-> peerid(atoi(args[nth(k) + 2]))]

\* parse_arguments has returned 1.
ParsedOk ==
    /\ pc # "main"
    /\ Len(argv) > 0
    /\ ~(pc = "exited" /\ last_log = <<"Failed to parse arguments">>)

BufferInitFailed ==
    /\ Count(trace, <<"init", "flood_source">>) >= 1
    /\ Count(trace, <<"init", "flood_buffer">>) = 0

\* C21: when the buffer's construction fails in server_handler_ready, the
\* encoder and then the source are released, once each, the buffer is never
\* released, server_ready stays false, terminate() releases the transport
\* once and tells the reactor to quit with code 1, which main returns, and
\* the source is never invoked: no pull was made and none can be made.
C21_BufferInitFailure ==
    BufferInitFailed =>
        /\ trace = <<<<"init", "server">>, <<"init", "flood_source">>,
                     <<"init", "flood_encoder">>, <<"free", "flood_encoder">>,
                     <<"free", "flood_source">>, <<"free", "server">>,
                     <<"quit", "ss">>>>
        /\ objs = [flood_source |-> "freed", flood_encoder |-> "freed",
                   flood_buffer |-> "uninit", server |-> "freed"]
        /\ ~server_ready
        /\ ss = [quit |-> TRUE, code |-> 1]
        /\ ~sig_handler
        /\ fault = "none"
        /\ pc \in {"event_loop", "exited"}
        /\ pc = "event_loop" => ENABLED main_exit
        /\ pc = "exited" => exit_code = 1
        /\ call.ret = -1
        /\ hist = <<>>
        /\ pipe = "none"
        /\ in_flight = <<>>
        /\ sink_log = <<>>
        /\ ~ENABLED BufferJob
        /\ ~ENABLED SinkDone

C21_Witness ==
    /\ BufferInitFailed
    /\ my_id = hello_id
    /\ pc = "exited"
    /\ exit_code = 1

====
